---- MODULE Spec2Model ----
\* Vote counting and live vote broadcast of alx_polly.
\*
\*  * the in-memory vote endpoint (POST /api/polls/[id]/vote) over the module
\*    level `polls` record, with its fan-out to the WebSocket clients of
\*    global.wss;
\*  * the datastore-backed poll operations of lib/poll-actions.ts
\*    (voteOnPoll, getPoll, updatePoll, checkPollOwnership) over the polls and
\*    poll_options tables.
\*
\* A handler runs to its next `await` without interruption (single-threaded
\* event loop); every action below is one such run.  A query awaited on the
\* datastore is executed by the datastore in the step that resumes the caller.
EXTENDS Integers, Sequences, FiniteSets, TLC

\* ------------------------------------------------------------------ bounds
MaxPost == 2        \* POST vote requests
MaxConns == 2       \* WebSocket connections ever accepted by the server
MaxVoters == 2      \* voteOnPoll calls in flight at the same time
MaxWrites == 2      \* no voteOnPoll call starts once this many updates ran
MaxBroadcast == 2   \* broadcastVoteUpdate is not called past this inbox length
MaxEffects == 2     \* runs of the poll detail page's effect (= clients made)
MaxAttempts == 3    \* largest config.maxAttempts besides the default's
MaxBatch == 2       \* handlers of NewPollForm run between two renders
MaxCalls == 1       \* callers of poll operations in a behaviour of SpecResults
MaxTally == 1       \* votes the server takes in while the page is watched

Requests == 1 .. MaxPost
Conns == 1 .. MaxConns
Voters == 1 .. MaxVoters

\* ---------------------------------------------------- program constants
\* ws readyState values; the fan-out compares readyState with the literal 1.
OPEN == 1
CLOSING == 2
CLOSED == 3

\* the option fields NewPollForm keeps
MinOptionFields == 2
MaxOptionFields == 10

\* initial vote counts of the demo poll '1'
InitVotes1 == 12
InitVotes2 == 8
InitVotes3 == 15

Undefined == "<undefined>"  \* JavaScript undefined / null
Malformed == "<malformed>"  \* a request body that request.json() rejects

VARIABLES
    polls,       \* the in-memory `polls` record: poll id -> poll
    wss,         \* global.wss is defined
    clients,     \* global.wss.clients, in insertion (= iteration) order
    readyState,  \* readyState of every connection (0 before it is accepted)
    inbox,       \* messages each connected socket has been sent, in order
    joined,      \* votes the endpoint had applied when the socket connected
    closes,      \* removals of each connection from the registry: 0, 1, or
                 \* 2 for more than one
    req,         \* the POST vote requests
    dbPolls,     \* table polls: id -> row
    dbOptions,   \* table poll_options: id -> row
    now,         \* the clock new Date() reads
    writes,      \* number of vote updates the datastore has executed
    vote,        \* the voteOnPoll calls
    upd,         \* the updatePoll call
    op,          \* the call of createPoll, deletePoll, getPoll, getPolls or
                 \* getPollStats
    page,        \* the poll detail page and the WebSocket clients it made
    retry,       \* the withRetry call
    form,        \* the NewPollForm component
    signin       \* the SignInPage component

postVars == <<polls, wss, clients, readyState, inbox, joined, closes, req>>
storeVars == <<dbPolls, dbOptions, now, writes, vote, upd, op>>
vars == <<polls, wss, clients, readyState, inbox, joined, closes, req,
          dbPolls, dbOptions, now, writes, vote, upd, op, page,
          retry, form, signin>>
otherVars == <<retry, form, signin>>

\* =====================================================================
\* In-memory vote endpoint and WebSocket hub
\* =====================================================================
\* title and option text never change and are left out of the poll value
InitPolls ==
    [p \in {"1"} |->
        [id |-> "1",
         options |-> << [id |-> "1", votes |-> InitVotes1],
                        [id |-> "2", votes |-> InitVotes2],
                        [id |-> "3", votes |-> InitVotes3] >>]]

\* poll.options.find(opt => opt.id === optionId): index of the first match,
\* 0 when there is none
FindOptionOrFirst(poll, optionId) ==
    LET hits == {i \in 1 .. Len(poll.options) : poll.options[i].id = optionId}
    IN  IF hits = {} THEN 1 ELSE CHOOSE i \in hits : \A j \in hits : i <= j

FindOption(poll, optionId) ==
    LET hits == {i \in 1 .. Len(poll.options) : poll.options[i].id = optionId}
    IN  IF hits = {} THEN 0 ELSE CHOOSE i \in hits : \A j \in hits : i <= j

\* option.votes += 1 on the option object found at index i
IncrementVotesOnCopy(poll, i) ==
    poll

IncrementVotes(poll, i) ==
    [poll EXCEPT !.options[i].votes = @ + 1]

\* the VOTE_UPDATE envelope; JSON.stringify copies the counts as they are at
\* the call
VoteUpdateMessageStale(pollId, poll) ==
    [type |-> "VOTE_UPDATE", pollId |-> pollId, poll |-> polls[pollId]]

VoteUpdateMessage(pollId, poll) ==
    [type |-> "VOTE_UPDATE", pollId |-> pollId, poll |-> poll]

\* clients.forEach(client => { if (client.readyState === 1) client.send(..) })
\* `bad` is the set of connections whose send throws at this call.  A throw
\* leaves forEach at once.  Result: the inboxes and who threw.
RECURSIVE ForEachSendAll(_, _, _, _, _)
ForEachSendAll(cs, rs, box, msg, bad) ==
    IF cs = <<>> THEN [inbox |-> box, threw |-> {}]
    ELSE LET c == Head(cs) IN
         IF c \in bad
         THEN [inbox |-> box, threw |-> {c}]
         ELSE ForEachSendAll(Tail(cs), rs,
                             [box EXCEPT ![c] = Append(@, msg)], msg, bad)

RECURSIVE ForEachSend(_, _, _, _, _)
ForEachSend(cs, rs, box, msg, bad) ==
    IF cs = <<>> THEN [inbox |-> box, threw |-> {}]
    ELSE LET c == Head(cs) IN
         IF rs[c] = 1
         THEN IF c \in bad
              THEN [inbox |-> box, threw |-> {c}]
              ELSE ForEachSend(Tail(cs), rs,
                               [box EXCEPT ![c] = Append(@, msg)], msg, bad)
         ELSE ForEachSend(Tail(cs), rs, box, msg, bad)

\* the registry without the connection; removing one that is not in it
\* removes nothing
UnregisterSplice(cs, c) ==
    LET hits == {i \in 1 .. Len(cs) : cs[i] = c}
        i == IF hits = {} THEN Len(cs) ELSE CHOOSE h \in hits : TRUE
    IN  [k \in 1 .. (IF cs = <<>> THEN 0 ELSE Len(cs) - 1) |->
            IF k < i THEN cs[k] ELSE cs[k + 1]]

Unregister(cs, c) ==
    SelectSeq(cs, LAMBDA d : d # c)

\* NextResponse.json(...) values
NotFoundPoll == [status |-> 404, error |-> "Poll not found"]
NotFoundOption == [status |-> 404, error |-> "Option not found"]
InvalidRequest == [status |-> 400, error |-> "Invalid request"]
Success(poll) == [status |-> 200, success |-> TRUE, poll |-> poll]

\* A request: where it stands, what it asked (params.id, the body's optionId),
\* what it answered, whether it ran the increment, whose send threw.
IdleReq ==
    [pc |-> "idle", pollId |-> "", body |-> "", response |-> [status |-> 0],
     applied |-> FALSE, threw |-> {}]

PollIdInputs == {"1", "missing"}
BodyInputs == {Malformed, "1", "9"}

\* votes the endpoint has applied since it was loaded
VotesApplied ==
    LET o == polls["1"].options
        i == InitPolls["1"].options
    IN  (o[1].votes + o[2].votes + o[3].votes)
        - (i[1].votes + i[2].votes + i[3].votes)

InitPost ==
    /\ polls = InitPolls
    /\ wss = FALSE
    /\ clients = <<>>
    /\ readyState = [c \in Conns |-> 0]
    /\ inbox = [c \in Conns |-> <<>>]
    /\ joined = [c \in Conns |-> 0]
    /\ closes = [c \in Conns |-> 0]
    /\ req = [r \in Requests |-> IdleReq]

\* createWebSocketServer: creates the server once, returns it afterwards
createWebSocketServer ==
    /\ wss' = TRUE
    /\ UNCHANGED <<polls, clients, readyState, inbox, joined, req>>
    /\ UNCHANGED <<closes, storeVars, page, otherVars>>

\* wss.on('connection'): ws has added the open socket to wss.clients.
\* Connections are numbered in the order the server accepts them.
Connect(c) ==
    /\ wss
    /\ readyState[c] = 0
    /\ \A d \in Conns : d < c => readyState[d] # 0
    /\ readyState' = [readyState EXCEPT ![c] = OPEN]
    /\ clients' = Append(clients, c)
    /\ joined' = [joined EXCEPT ![c] = VotesApplied]
    /\ UNCHANGED <<polls, wss, inbox, req>>
    /\ UNCHANGED <<closes, storeVars, page, otherVars>>

\* the closing handshake has started: the socket is CLOSING, still in clients
StartClose(c) ==
    /\ readyState[c] = OPEN
    /\ readyState' = [readyState EXCEPT ![c] = CLOSING]
    /\ UNCHANGED <<polls, wss, clients, inbox, joined, req>>
    /\ UNCHANGED <<closes, storeVars, page, otherVars>>

\* ws.on('close'): ws has removed the socket from wss.clients; the socket and
\* what it was sent are gone
Close(c) ==
    /\ readyState[c] = CLOSING
    /\ readyState' = [readyState EXCEPT ![c] = CLOSED]
    /\ clients' = Unregister(clients, c)
    /\ closes' = [closes EXCEPT ![c] = 1]
    /\ inbox' = [inbox EXCEPT ![c] = <<>>]
    /\ joined' = [joined EXCEPT ![c] = 0]
    /\ UNCHANGED <<polls, wss, req>>
    /\ UNCHANGED <<storeVars, page, otherVars>>

\* the same connection is removed once more
CloseAgain(c) ==
    /\ readyState[c] = CLOSED
    /\ clients' = Unregister(clients, c)
    /\ closes' = [closes EXCEPT ![c] = 2]
    /\ UNCHANGED <<polls, wss, readyState, inbox, joined, req>>
    /\ UNCHANGED <<storeVars, page, otherVars>>

\* broadcastVoteUpdate(pollId, poll), called with a poll of the store.  A
\* throw of send leaves the function; it has no result.
broadcastVoteUpdate(pollId) ==
    /\ \A c \in Conns : Len(inbox[c]) < MaxBroadcast
    /\ IF wss
       THEN \E bad \in SUBSET {c \in Conns : readyState[c] = 1} :
               inbox' = ForEachSend(clients, readyState, inbox,
                                    VoteUpdateMessage(pollId, polls[pollId]),
                                    bad).inbox
       ELSE inbox' = inbox
    /\ UNCHANGED <<polls, wss, clients, readyState, joined, closes, req>>
    /\ UNCHANGED <<storeVars, page, otherVars>>

\* POST up to `await request.json()`.  Requests are numbered in the order
\* they arrive.
POSTStart(r) ==
    /\ req[r].pc = "idle"
    /\ \A q \in Requests : q < r => req[q].pc # "idle"
    /\ req' = [req EXCEPT ![r] = [@ EXCEPT !.pc = "json"]]
    /\ UNCHANGED <<polls, wss, clients, readyState, inbox, joined>>
    /\ UNCHANGED <<closes, storeVars, page, otherVars>>

Respond(r, pollId, body, response, applied, threw) ==
    req' = [req EXCEPT ![r] = [pc |-> "done", pollId |-> pollId, body |-> body,
                               response |-> response, applied |-> applied,
                               threw |-> threw]]

\* POST from the resolution of request.json() to its return.  params.id and
\* the body are fixed by the sender; nothing reads them before this run, so
\* they are drawn here.
POST(r, pollId, body) ==
    /\ req[r].pc = "json"
    /\ UNCHANGED <<closes, storeVars, page, otherVars>>
    /\ IF body = Malformed
       THEN /\ Respond(r, pollId, body, InvalidRequest, FALSE, {})
            /\ UNCHANGED <<polls, wss, clients, readyState, inbox, joined>>
       ELSE IF pollId \notin DOMAIN polls
       THEN /\ Respond(r, pollId, body, NotFoundPoll, FALSE, {})
            /\ UNCHANGED <<polls, wss, clients, readyState, inbox, joined>>
       ELSE IF FindOption(polls[pollId], body) = 0
       THEN /\ Respond(r, pollId, body, NotFoundOption, FALSE, {})
            /\ UNCHANGED <<polls, wss, clients, readyState, inbox, joined>>
       ELSE LET poll == IncrementVotes(polls[pollId],
                                       FindOption(polls[pollId], body))
            IN  /\ polls' = [polls EXCEPT ![pollId] = poll]
                /\ UNCHANGED <<wss, clients, readyState, joined>>
                /\ IF wss
                   THEN \E bad \in SUBSET {c \in Conns : readyState[c] = 1} :
                          LET out == ForEachSend(clients, readyState, inbox,
                                                 VoteUpdateMessage(pollId, poll), bad)
                          IN  /\ inbox' = out.inbox
                              /\ IF out.threw # {}
                                 THEN Respond(r, pollId, body, InvalidRequest,
                                              TRUE, out.threw)
                                 ELSE Respond(r, pollId, body, Success(poll),
                                              TRUE, {})
                   ELSE /\ inbox' = inbox
                        /\ Respond(r, pollId, body, Success(poll), TRUE, {})

NextPost ==
    \/ createWebSocketServer
    \/ \E c \in Conns : Connect(c)
    \/ \E c \in Conns : StartClose(c)
    \/ \E c \in Conns : Close(c)
    \/ \E r \in Requests : POSTStart(r)
    \/ \E r \in Requests, p \in PollIdInputs, b \in BodyInputs : POST(r, p, b)

\* =====================================================================
\* Datastore-backed poll operations (lib/poll-actions.ts)
\* =====================================================================
Users == {"u1", "u2"}

\* One shape for every error object: a FormError (message, type), a
\* PostgrestError (message, code), an HTTP client error (response status,
\* request).  A property an object does not have reads "" / 0 / FALSE.
Err(message, type, code) ==
    [message |-> message, type |-> type, code |-> code,
     response |-> 0, request |-> FALSE]

createFormError(message, type) == Err(message, type, "")

\* what the datastore answers to a query: "ok" or the code of its error
DbOutcomes == {"ok", "57014"}
PostgrestError(code) ==
    Err(IF code = "PGRST116"
        THEN "JSON object requested, multiple (or no) rows returned"
        ELSE "canceling statement due to statement timeout", "", code)

parseApiError(error) ==
    IF error.response # 0
    THEN CASE error.response = 400 ->
                Err("Invalid request. Please check your input.", "api", "")
           [] error.response = 401 ->
                Err("Authentication required. Please sign in.", "api", "")
           [] error.response = 403 ->
                Err("You don't have permission to perform this action.", "api", "")
           [] error.response = 404 ->
                Err("The requested resource was not found.", "api", "")
           [] error.response = 409 ->
                Err("Conflict occurred. The resource may already exist.", "api", "")
           [] error.response = 422 ->
                Err("Server error occurred", "validation", "")
           [] error.response = 429 ->
                Err("Too many requests. Please wait a moment and try again.", "api", "")
           [] error.response = 500 ->
                Err("Server error occurred. Please try again later.", "api", "")
           [] OTHER -> Err("Server error occurred", "api", "")
    ELSE IF error.request
    THEN Err("Network error. Please check your connection and try again.",
             "network", "")
    ELSE Err(IF error.message = "" THEN "An unexpected error occurred."
             ELSE error.message, "general", "")

\* PollOperationResult; an absent field is the empty set
NoResult ==
    [success |-> FALSE, data |-> {}, error |-> {}, validationErrors |-> {}]

createErrorResponseBare(error) ==
    [success |-> FALSE, data |-> {}, error |-> {}, validationErrors |-> {}]

createErrorResponse(error) ==
    [success |-> FALSE, data |-> {}, error |-> {parseApiError(error)},
     validationErrors |-> {}]

createSuccessResponse(data) ==
    [success |-> TRUE, data |-> {data}, error |-> {}, validationErrors |-> {}]

handleDatabaseError(error) ==
    IF error.code = "PGRST116"
    THEN createErrorResponse(createFormError("Resource not found", "api"))
    ELSE IF error.code = "23505"
    THEN createErrorResponse(createFormError("Resource already exists", "api"))
    ELSE IF error.code = "23503"
    THEN createErrorResponse(createFormError("Referenced resource not found", "api"))
    ELSE createErrorResponse(error)

\* String.prototype.trim on the strings used here
Trim(s) == IF s = " " THEN "" ELSE s

validateVoteDataSkipped(data) ==
    [success |-> TRUE, data |-> {}, validationErrors |-> {}, error |-> {}]

validateVoteData(data) ==
    LET validationErrors ==
            {[field |-> "poll_id", message |-> "Poll ID is required"] :
                x \in {data.poll_id} \cap {"", " "}}
            \cup
            {[field |-> "option_id", message |-> "Option ID is required"] :
                x \in {data.option_id} \cap {"", " "}}
        hasErrors == validationErrors # {}
    IN  [success |-> ~hasErrors,
         data |-> {},
         validationErrors |-> validationErrors,
         error |-> IF hasErrors
                   THEN {createFormError("Validation failed", "validation")}
                   ELSE {}]

\* new Date(poll.expires_at) < new Date(), guarded by poll.expires_at &&
ExpiredNever(poll, t) == FALSE

Expired(poll, t) == \E e \in poll.expires_at : e < t

RECURSIVE SumVotes(_, _)
SumVotes(options, ids) ==
    IF ids = {} THEN 0
    ELSE LET o == CHOOSE x \in ids : TRUE
         IN  options[o].votes + SumVotes(options, ids \ {o})

\* the rows of poll_options that belong to the poll
OptionsOf(pollId, table) ==
    [o \in {x \in DOMAIN table : table[x].poll_id = pollId} |-> table[o]]

\* { ...poll, options, total_votes }: the row, the option rows, the sum of
\* their votes
CompletePoll(pollId, row, options) ==
    [id |-> pollId,
     is_active |-> row.is_active,
     options |-> [o \in DOMAIN options |-> options[o].votes],
     total_votes |-> SumVotes(options, DOMAIN options)]

\* getPoll, the datastore answering `outcome` to its select
getPoll(pollId, outcome) ==
    IF outcome # "ok" THEN handleDatabaseError(PostgrestError(outcome))
    ELSE IF pollId \notin DOMAIN dbPolls
    THEN handleDatabaseError(PostgrestError("PGRST116"))
    ELSE createSuccessResponse(
             CompletePoll(pollId, dbPolls[pollId], OptionsOf(pollId, dbOptions)))

InitDbPolls ==
    [p \in {"p1", "p2"} |->
        IF p = "p1"
        THEN [is_active |-> TRUE, expires_at |-> {0}, created_by |-> "u1"]
        ELSE [is_active |-> FALSE, expires_at |-> {0}, created_by |-> "u2"]]

InitDbOptions ==
    [o \in {"a", "b", "c", "d"} |->
        [poll_id |-> IF o \in {"a", "b"} THEN "p1" ELSE "p2", votes |-> 0]]

\* .from('poll_options').eq('id', option_id).eq('poll_id', poll_id): the ids
\* of the rows selected
SelectOptionById(option_id, poll_id) ==
    {o \in DOMAIN dbOptions : o = option_id}

SelectOption(option_id, poll_id) ==
    {o \in DOMAIN dbOptions : o = option_id /\ dbOptions[o].poll_id = poll_id}

\* A voteOnPoll call: its arguments, option.votes as it read it, whether its
\* update was executed, whether the query it awaited last answered an error,
\* what it returned.
IdleVote ==
    [pc |-> "idle", poll_id |-> "", option_id |-> "", basis |-> 0,
     wrote |-> FALSE, dbError |-> FALSE, result |-> NoResult]

VoteInputs ==
    { <<"p1", "a">>, <<"p1", "c">>, <<"p2", "c">>, <<"missing", "a">>,
      <<" ", "">> }

IdleUpd ==
    [pc |-> "idle", pollId |-> "", data |-> [title |-> Undefined,
     options |-> {}, is_active |-> {}, expires_at |-> {}],
     user |-> Undefined, row |-> {}, dbError |-> FALSE, result |-> NoResult]

NoCreateData == [title |-> "", options |-> <<>>, expires_at |-> {}]

\* A call of createPoll, deletePoll, getPoll, getPolls or getPollStats: its
\* arguments, the user supabase.auth holds a session for when it is made
\* (Undefined: nobody is signed in), the poll createPoll inserted, the rows
\* getPollStats selected, whether a table was queried, whether the query
\* awaited last answered an error, what the call returned.
IdleOp ==
    [name |-> "", pc |-> "idle", pollId |-> "", userId |-> Undefined,
     data |-> NoCreateData, session |-> Undefined, user |-> Undefined,
     poll |-> "", rows |-> <<>>, queried |-> FALSE, dbError |-> FALSE,
     result |-> NoResult]

InitStore ==
    /\ dbPolls = InitDbPolls
    /\ dbOptions = InitDbOptions
    /\ now = 0
    /\ writes = 0
    /\ vote = [v \in Voters |-> IdleVote]
    /\ upd = IdleUpd
    /\ op = IdleOp

\* ---------------------------------------------------------------------
\* The poll detail page (PollDetailPage) and its WebSocket clients
\* ---------------------------------------------------------------------
PageIds == {"1", "2"}
Tallies == 0 .. MaxTally
Outcomes == {"ok", "non-ok", "throw"}

\* data.poll of a response or of a message: the poll and a tally
PollData(id, votes) == [id |-> id, votes |-> votes]

NoMessage == [type |-> "", pollId |-> "", poll |-> PollData("", 0)]

\* what broadcastVoteUpdate(pollId, poll) sends: the poll voted on
Messages ==
    {[type |-> "VOTE_UPDATE", pollId |-> i, poll |-> PollData(i, n)] :
        i \in PageIds, n \in Tallies}

\* what happened last: an effect run, a cleanup, a fetch settled, a message
NoEvent == [event |-> "", outcome |-> "", client |-> 0, message |-> NoMessage]

\* the handleVote call in flight: where it is, the params.id it closed over,
\* and the votes in the OK response on its way
IdleVoteCall == [pc |-> "idle", id |-> "", votes |-> 0]

\* The component's state (poll is {} for null, wsClient 0 for null), its
\* prop params.id, the wsClient the pending cleanup closed over, the
\* WebSocketClient objects made so far (each with the params.id its callback
\* closed over and the votes in the last VOTE_UPDATE for that poll it was
\* handed or that was sent before it connected), the fetchPoll calls in flight (each with the response on its
\* way, {} while there is none), the handleVote call in flight, and the
\* votes the server holds for each poll.
InitialPage ==
    [status |-> "initial", id |-> "", poll |-> {}, loading |-> TRUE,
     voting |-> FALSE, selectedOption |-> Undefined, wsClient |-> 0,
     cleanup |-> 0, sockets |-> <<>>, fetches |-> <<>>,
     hv |-> IdleVoteCall, server |-> [i \in PageIds |-> 0],
     last |-> NoEvent]

\* ---------------------------------------------------------------------
\* withRetry (lib/poll-actions.ts)
\* ---------------------------------------------------------------------
\* A value fn rejects with is {} for undefined / null and {error} for an
\* error object.
HttpError(status) == [Err("", "", "") EXCEPT !.response = status]
NetworkError == [Err("", "", "") EXCEPT !.request = TRUE]
RetryErrors ==
    { {}, {HttpError(500)}, {HttpError(400)}, {HttpError(503)},
      {NetworkError}, {Err("boom", "", "")} }

\* what reading a property of undefined throws
TypeError ==
    Err("Cannot read properties of undefined (reading 'response')", "", "")

defaultRetryConfig ==
    [maxAttempts |-> 3, delay |-> 1000, backoffMultiplier |-> 2]

RetryConfigs ==
    {defaultRetryConfig}
    \cup [maxAttempts : 0 .. MaxAttempts, delay : {10},
          backoffMultiplier : {1, 2}]

\* A withRetry call: its config, the loop variable, the number of times fn
\* was invoked, what each invocation rejected with, the delays waited,
\* lastError, and what the call settled with (a value when pc is "resolved",
\* an error when it is "rejected").
IdleRetry ==
    [pc |-> "idle", config |-> defaultRetryConfig, attempt |-> 0,
     calls |-> 0, rejections |-> <<>>, waits |-> <<>>, lastError |-> {},
     value |-> "", error |-> {}]

\* ---------------------------------------------------------------------
\* NewPollForm (components/forms/NewPollForm.tsx)
\* ---------------------------------------------------------------------
\* The component's state as the pending updates leave it (formData without
\* the description, which is never typed; errors as the set of fields that
\* have one; formState), the state of the last render, which is what the
\* handlers of that render read, the handlers run since that render, the
\* submissions awaiting their timer, the navigations scheduled, whether
\* router.push('/polls') was called, and the handler that ran last.
InitialForm ==
    [formData |-> [title |-> "", options |-> <<"", "">>],
     errors |-> {},
     formState |-> [isSubmitting |-> FALSE, isSuccess |-> FALSE,
                    generalError |-> {}, successMessage |-> {}],
     rendered |-> [formData |-> [title |-> "", options |-> <<"", "">>],
                   errors |-> {}, isSubmitting |-> FALSE],
     batch |-> 0, pending |-> 0, navTimers |-> 0, navigated |-> FALSE,
     last |-> ""]

\* ---------------------------------------------------------------------
\* SignInPage (app/(auth)/signin/page.tsx)
\* ---------------------------------------------------------------------
\* The email and password state, the handleSignIn call (the credentials it
\* passed, how signInWithPassword settled), whether router.push('/polls')
\* was called.
InitialSignIn ==
    [email |-> "", password |-> "", pc |-> "idle",
     credentials |-> [email |-> "", password |-> ""],
     outcome |-> "", navigated |-> FALSE]

Init ==
    /\ InitPost
    /\ InitStore
    /\ page = InitialPage
    /\ retry = IdleRetry
    /\ form = InitialForm
    /\ signin = InitialSignIn

\* the clock advances; instants after the last expiry are all alike, so it
\* stops there
Tick ==
    /\ \E p \in DOMAIN dbPolls : \E e \in dbPolls[p].expires_at : now <= e
    /\ now' = now + 1
    /\ UNCHANGED <<dbPolls, dbOptions, writes, vote, upd>>
    /\ UNCHANGED <<postVars, op, page, otherVars>>

\* the call returns; its locals are gone
Return(v, result, dbError) ==
    vote' = [vote EXCEPT ![v] = [@ EXCEPT !.pc = "done", !.basis = 0,
                                          !.dbError = dbError,
                                          !.result = result]]

\* voteOnPoll up to `await getAuthenticatedClient()`.  A call takes the
\* lowest slot that holds no call in flight.
voteOnPoll(v, poll_id, option_id) ==
    /\ vote[v].pc \in {"idle", "done"}
    /\ \A w \in Voters : w < v => vote[w].pc \notin {"idle", "done"}
    /\ writes < MaxWrites
    /\ LET validation == validateVoteData([poll_id |-> poll_id,
                                           option_id |-> option_id])
           call == [IdleVote EXCEPT !.poll_id = poll_id,
                                    !.option_id = option_id]
       IN  vote' = [vote EXCEPT ![v] =
                       IF ~validation.success
                       THEN [call EXCEPT !.pc = "done", !.result = validation]
                       ELSE [call EXCEPT !.pc = "auth"]]
    /\ UNCHANGED <<dbPolls, dbOptions, now, writes, upd>>
    /\ UNCHANGED <<postVars, op, page, otherVars>>

\* supabase.auth.getUser() has answered: a user, or none
VoteAwaitAuth(v) ==
    /\ vote[v].pc = "auth"
    /\ \E user \in Users \cup {Undefined} :
         IF user = Undefined
         THEN Return(v, createErrorResponse(
                           createFormError("Authentication required", "api")),
                     FALSE)
         ELSE vote' = [vote EXCEPT ![v].pc = "poll"]
    /\ UNCHANGED <<dbPolls, dbOptions, now, writes, upd>>
    /\ UNCHANGED <<postVars, op, page, otherVars>>

\* select from polls where id and is_active, single(); then the expiry check
VoteAwaitPoll(v) ==
    /\ vote[v].pc = "poll"
    /\ \E outcome \in DbOutcomes :
         LET id == vote[v].poll_id
             found == /\ outcome = "ok"
                      /\ id \in DOMAIN dbPolls
                      /\ dbPolls[id].is_active
         IN  IF ~found
             THEN Return(v, createErrorResponse(
                               createFormError("Poll not found or inactive", "api")),
                         outcome # "ok")
             ELSE IF Expired(dbPolls[id], now)
             THEN Return(v, createErrorResponse(
                               createFormError("This poll has expired", "api")),
                         FALSE)
             ELSE vote' = [vote EXCEPT ![v].pc = "option"]
    /\ UNCHANGED <<dbPolls, dbOptions, now, writes, upd>>
    /\ UNCHANGED <<postVars, op, page, otherVars>>

\* select from poll_options where id and poll_id, single()
VoteAwaitOption(v) ==
    /\ vote[v].pc = "option"
    /\ \E outcome \in DbOutcomes :
         LET id == vote[v].option_id
             found == /\ outcome = "ok"
                      /\ SelectOption(id, vote[v].poll_id) # {}
         IN  IF ~found
             THEN Return(v, createErrorResponse(
                               createFormError("Invalid option", "api")),
                         outcome # "ok")
             ELSE vote' = [vote EXCEPT ![v].pc = "update",
                                       ![v].basis = dbOptions[id].votes]
    /\ UNCHANGED <<dbPolls, dbOptions, now, writes, upd>>
    /\ UNCHANGED <<postVars, op, page, otherVars>>

\* update poll_options set votes = option.votes + 1 where id
VoteAwaitUpdate(v) ==
    /\ vote[v].pc = "update"
    /\ \E outcome \in DbOutcomes :
         IF outcome # "ok"
         THEN /\ Return(v, handleDatabaseError(PostgrestError(outcome)), TRUE)
              /\ UNCHANGED <<dbOptions, writes>>
         ELSE /\ writes' = writes + 1
              /\ dbOptions' =
                    IF vote[v].option_id \in DOMAIN dbOptions
                    THEN [dbOptions EXCEPT ![vote[v].option_id].votes =
                                               vote[v].basis + 1]
                    ELSE dbOptions
              /\ vote' = [vote EXCEPT ![v].pc = "getPoll", ![v].wrote = TRUE]
    /\ UNCHANGED <<dbPolls, now, upd>>
    /\ UNCHANGED <<postVars, op, page, otherVars>>

\* return getPoll(voteData.poll_id)
VoteAwaitGetPoll(v) ==
    /\ vote[v].pc = "getPoll"
    /\ \E outcome \in DbOutcomes :
         Return(v, getPoll(vote[v].poll_id, outcome), outcome # "ok")
    /\ UNCHANGED <<dbPolls, dbOptions, now, writes, upd>>
    /\ UNCHANGED <<postVars, op, page, otherVars>>

\* ---------------------------------------------------------------- updatePoll
\* String.prototype.length of the trimmed texts used here
TrimLength(s) ==
    CASE Trim(s) = "" -> 0
      [] Trim(s) = "ab" -> 2
      [] Trim(s) = "Lunch?" -> 6
      [] OTHER -> 1

\* opt.trim().toLowerCase() on the option texts used here
TrimLower(s) == IF s \in {"X", "X ", "x"} THEN "x" ELSE Trim(s)

validatePollTitle(title) ==
    IF Trim(title) = "" THEN {"Poll title is required"}
    ELSE IF TrimLength(title) < 3
    THEN {"Poll title must be at least 3 characters long"}
    ELSE IF TrimLength(title) > 200
    THEN {"Poll title must be less than 200 characters"}
    ELSE {}

validatePollOption(option) ==
    IF Trim(option) = "" THEN {"Option text is required"}
    ELSE IF TrimLength(option) < 1
    THEN {"Option text must be at least 1 character long"}
    ELSE IF TrimLength(option) > 100
    THEN {"Option text must be less than 100 characters"}
    ELSE {}

\* the error of validatePollOptions, {} when the options are valid
validatePollOptions(options) ==
    IF Len(options) < 2 THEN {"At least 2 options are required"}
    ELSE IF Len(options) > 10 THEN {"Maximum 10 options allowed"}
    ELSE IF Cardinality({TrimLower(options[i]) : i \in 1 .. Len(options)})
                # Len(options)
    THEN {"Duplicate options are not allowed"}
    ELSE LET bad == {i \in 1 .. Len(options) :
                        validatePollOption(options[i]) # {}}
         IN  IF bad = {} THEN {}
             ELSE validatePollOption(
                      options[CHOOSE i \in bad : \A j \in bad : i <= j])

\* UpdatePollData: title is a string or Undefined; options, is_active and
\* expires_at are {} when undefined, {value} otherwise
validateUpdatePollData(data) ==
    LET validationErrors ==
            {[field |-> "title", message |-> m] :
                m \in IF data.title # Undefined
                      THEN validatePollTitle(data.title) ELSE {}}
            \cup
            {[field |-> "options", message |-> m] :
                m \in UNION {validatePollOptions(o) : o \in data.options}}
            \cup
            {[field |-> "expires_at",
              message |-> "Expiration date must be in the future"] :
                e \in {x \in data.expires_at : x <= now}}
        hasErrors == validationErrors # {}
    IN  [success |-> ~hasErrors,
         data |-> {},
         validationErrors |-> validationErrors,
         error |-> IF hasErrors
                   THEN {createFormError("Validation failed", "validation")}
                   ELSE {}]

\* a JavaScript value that is a string, or a user object with an id
JsString(s) == [kind |-> "string", value |-> s]
JsUser(id) == [kind |-> "object", value |-> id]
\* x.id: the id of a user object; a string has no property id
PropertyId(x) == IF x.kind = "object" THEN x.value ELSE Undefined

checkPollOwnershipAlways(pollId, userId, current, outcome) == TRUE

\* checkPollOwnership(pollId, userId), called by a signed-in `current` user,
\* the datastore answering `outcome` to its select of created_by
checkPollOwnership(pollId, userId, current, outcome) ==
    LET user == IF userId # "" /\ userId # Undefined
                THEN JsString(userId) ELSE JsUser(current)
    IN  IF outcome # "ok" \/ pollId \notin DOMAIN dbPolls THEN FALSE
        ELSE dbPolls[pollId].created_by = PropertyId(user)

NoUpdateData == [title |-> Undefined, options |-> {}, is_active |-> {},
                 expires_at |-> {}]

UpdateInputs ==
    { [NoUpdateData EXCEPT !.is_active = {FALSE}],
      [NoUpdateData EXCEPT !.options = {<<"x", "y">>}],
      [NoUpdateData EXCEPT !.options = {<<"x", "X ">>}],
      [NoUpdateData EXCEPT !.title = "ab", !.expires_at = {0}] }

UpdatePollIds == {"p1", "missing"}

\* ids the datastore gives to new poll_options rows
NewOptionIds == {"n1", "n2", "n3", "n4"}

\* the rows inserted for `options` under the ids ids[1], ids[2], ...
InsertedOptions(pollId, options, ids) ==
    [o \in {ids[i] : i \in 1 .. Len(options)} |->
        [poll_id |-> pollId, votes |-> 0]]

UpdReturn(result, dbError) ==
    upd' = [upd EXCEPT !.pc = "done", !.result = result, !.dbError = dbError]

\* updatePoll up to `await getAuthenticatedClient()`
updatePoll(pollId, data) ==
    /\ upd.pc \in {"idle", "done"}
    /\ LET validation == validateUpdatePollData(data)
           call == [pc |-> "auth", pollId |-> pollId, data |-> data,
                    user |-> Undefined, row |-> {}, dbError |-> FALSE,
                    result |-> NoResult]
       IN  upd' = IF ~validation.success
                  THEN [call EXCEPT !.pc = "done", !.result = validation]
                  ELSE call
    /\ UNCHANGED <<dbPolls, dbOptions, now, writes, vote>>
    /\ UNCHANGED <<postVars, op, page, otherVars>>

\* supabase.auth.getUser() has answered: a user, or none
UpdateAwaitAuth ==
    /\ upd.pc = "auth"
    /\ \E user \in Users \cup {Undefined} :
         IF user = Undefined
         THEN UpdReturn(createErrorResponse(
                           createFormError("Authentication required", "api")),
                        FALSE)
         ELSE upd' = [upd EXCEPT !.pc = "owner", !.user = user]
    /\ UNCHANGED <<dbPolls, dbOptions, now, writes, vote>>
    /\ UNCHANGED <<postVars, op, page, otherVars>>

\* updatePoll resumed after one of its datastore queries: the ownership
\* check, the update of the polls row, the delete of the old options, the
\* insert of the new ones, the select of the kept ones
UpdateAwaitQuery ==
    /\ upd.pc \in {"owner", "polls", "delete", "insert", "select"}
    /\ UNCHANGED <<now, writes, vote>>
    /\ UNCHANGED <<postVars, op, page, otherVars>>
    /\ \E outcome \in DbOutcomes :
         LET id == upd.pollId
             data == upd.data
         IN
         IF upd.pc = "owner"
         THEN /\ IF checkPollOwnership(id, upd.user, upd.user, outcome)
                 THEN upd' = [upd EXCEPT !.pc = "polls"]
                 ELSE UpdReturn(createErrorResponse(createFormError(
                          "You can only update your own polls", "api")),
                          outcome # "ok")
              /\ UNCHANGED <<dbPolls, dbOptions>>
         ELSE IF upd.pc = "polls"
         THEN IF outcome # "ok" \/ id \notin DOMAIN dbPolls
              THEN /\ UpdReturn(handleDatabaseError(PostgrestError(
                         IF outcome # "ok" THEN outcome ELSE "PGRST116")),
                         outcome # "ok")
                   /\ UNCHANGED <<dbPolls, dbOptions>>
              ELSE LET row == [dbPolls[id] EXCEPT
                                  !.is_active = IF data.is_active = {} THEN @
                                                ELSE TRUE \in data.is_active,
                                  !.expires_at = IF data.expires_at = {} THEN @
                                                 ELSE data.expires_at]
                   IN  /\ dbPolls' = [dbPolls EXCEPT ![id] = row]
                       /\ upd' = [upd EXCEPT !.row = {row},
                                             !.pc = IF data.options # {}
                                                    THEN "delete" ELSE "select"]
                       /\ UNCHANGED dbOptions
         ELSE IF upd.pc = "delete"
         THEN IF outcome # "ok"
              THEN /\ UpdReturn(handleDatabaseError(PostgrestError(outcome)),
                                TRUE)
                   /\ UNCHANGED <<dbPolls, dbOptions>>
              ELSE /\ dbOptions' =
                         [o \in {x \in DOMAIN dbOptions :
                                    dbOptions[x].poll_id # id} |-> dbOptions[o]]
                   /\ upd' = [upd EXCEPT !.pc = "insert"]
                   /\ UNCHANGED dbPolls
         ELSE IF upd.pc = "insert"
         THEN IF outcome # "ok"
              THEN /\ UpdReturn(handleDatabaseError(PostgrestError(outcome)),
                                TRUE)
                   /\ UNCHANGED <<dbPolls, dbOptions>>
              ELSE \E options \in data.options :
                   \E ids \in [1 .. Len(options) -> NewOptionIds \ DOMAIN dbOptions] :
                      /\ \A i, j \in 1 .. Len(options) :
                            ids[i] = ids[j] => i = j
                      /\ dbOptions' =
                            [o \in DOMAIN dbOptions
                                   \cup {ids[i] : i \in 1 .. Len(options)} |->
                                IF o \in DOMAIN dbOptions THEN dbOptions[o]
                                ELSE InsertedOptions(id, options, ids)[o]]
                      /\ \E row \in upd.row :
                            UpdReturn(createSuccessResponse(CompletePoll(
                                id, row, InsertedOptions(id, options, ids))),
                                FALSE)
                      /\ UNCHANGED dbPolls
         ELSE /\ \E row \in upd.row :
                   UpdReturn(createSuccessResponse(CompletePoll(
                       id, row, IF outcome = "ok" THEN OptionsOf(id, dbOptions)
                                ELSE OptionsOf(id, <<>>))), FALSE)
              /\ UNCHANGED <<dbPolls, dbOptions>>

\* ---------------------------------------------------------------- createPoll
\* CreatePollData without a description: title, options, expires_at ({} when
\* undefined)
validateCreatePollData(data) ==
    LET validationErrors ==
            {[field |-> "title", message |-> m] :
                m \in validatePollTitle(data.title)}
            \cup
            {[field |-> "options", message |-> m] :
                m \in validatePollOptions(data.options)}
            \cup
            {[field |-> "expires_at",
              message |-> "Expiration date must be in the future"] :
                e \in {x \in data.expires_at : x <= now}}
        hasErrors == validationErrors # {}
    IN  [success |-> ~hasErrors,
         data |-> {},
         validationErrors |-> validationErrors,
         error |-> IF hasErrors
                   THEN {createFormError("Validation failed", "validation")}
                   ELSE {}]

CreateInputs ==
    { [title |-> "Lunch?", options |-> <<"x", "y">>, expires_at |-> {}],
      [title |-> "ab", options |-> <<"x", "y">>, expires_at |-> {}],
      [title |-> "Lunch?", options |-> <<"x", "X ">>, expires_at |-> {0}] }

\* ids the datastore gives to new polls rows
NewPollIds == {"p3"}

OpReturn(result, dbError) ==
    op' = [op EXCEPT !.pc = "done", !.result = result, !.dbError = dbError]

\* createPoll up to `await getAuthenticatedClient()`, called while `session`
\* is signed in
createPoll(pollData, session) ==
    /\ op.pc \in {"idle", "done"}
    /\ NewPollIds \ DOMAIN dbPolls # {}
    /\ LET validation == validateCreatePollData(pollData)
           call == [IdleOp EXCEPT !.name = "createPoll", !.data = pollData,
                                  !.session = session]
       IN  op' = IF ~validation.success
                 THEN [call EXCEPT !.pc = "done", !.result = validation]
                 ELSE [call EXCEPT !.pc = "auth"]
    /\ UNCHANGED <<dbPolls, dbOptions, now, writes, vote, upd>>
    /\ UNCHANGED <<postVars, page, otherVars>>

\* deletePoll up to `await getAuthenticatedClient()`
deletePoll(pollId, session) ==
    /\ op.pc \in {"idle", "done"}
    /\ op' = [IdleOp EXCEPT !.name = "deletePoll", !.pollId = pollId,
                            !.session = session, !.pc = "auth"]
    /\ UNCHANGED <<dbPolls, dbOptions, now, writes, vote, upd>>
    /\ UNCHANGED <<postVars, page, otherVars>>

\* getAuthenticatedClient: supabase.auth.getUser() has answered the session's
\* user, or an error or no user, and then it throws
OpAwaitAuth ==
    /\ op.pc = "auth"
    /\ \E user \in {op.session, Undefined} :
         IF user = Undefined
         THEN OpReturn(createErrorResponse(
                          createFormError("Authentication required", "api")),
                       FALSE)
         ELSE op' = [op EXCEPT !.user = user,
                               !.pc = IF op.name = "createPoll"
                                      THEN "insertPoll" ELSE "owner"]
    /\ UNCHANGED <<dbPolls, dbOptions, now, writes, vote, upd>>
    /\ UNCHANGED <<postVars, page, otherVars>>

\* insert into polls ... select().single()
CreateAwaitPoll ==
    /\ op.pc = "insertPoll"
    /\ \E outcome \in DbOutcomes :
         IF outcome # "ok"
         THEN /\ op' = [op EXCEPT !.pc = "done", !.queried = TRUE,
                           !.dbError = TRUE,
                           !.result = handleDatabaseError(PostgrestError(outcome))]
              /\ UNCHANGED dbPolls
         ELSE LET id == CHOOSE x \in NewPollIds \ DOMAIN dbPolls : TRUE
                  pollRecord == [is_active |-> TRUE,
                                 expires_at |-> op.data.expires_at,
                                 created_by |-> op.user]
              IN  /\ dbPolls' = [p \in DOMAIN dbPolls \cup {id} |->
                                    IF p = id THEN pollRecord ELSE dbPolls[p]]
                  /\ op' = [op EXCEPT !.pc = "insertOptions", !.poll = id,
                                      !.queried = TRUE]
    /\ UNCHANGED <<dbOptions, now, writes, vote, upd>>
    /\ UNCHANGED <<postVars, page, otherVars>>

\* insert into poll_options ... select(); the new rows are alike, so the ids
\* they get are the first choice among the free ones
CreateAwaitOptions ==
    /\ op.pc = "insertOptions"
    /\ \E outcome \in DbOutcomes :
         IF outcome # "ok"
         THEN /\ op' = [op EXCEPT !.pc = "cleanup", !.dbError = TRUE,
                           !.result = handleDatabaseError(PostgrestError(outcome))]
              /\ UNCHANGED dbOptions
         ELSE LET options == op.data.options
                  ids == CHOOSE f \in [1 .. Len(options) ->
                                          NewOptionIds \ DOMAIN dbOptions] :
                            \A i, j \in 1 .. Len(options) : f[i] = f[j] => i = j
                  rows == InsertedOptions(op.poll, options, ids)
              IN  /\ dbOptions' = [o \in DOMAIN dbOptions \cup DOMAIN rows |->
                                      IF o \in DOMAIN dbOptions THEN dbOptions[o]
                                      ELSE rows[o]]
                  /\ OpReturn(createSuccessResponse(
                                 CompletePoll(op.poll, dbPolls[op.poll], rows)),
                              FALSE)
    /\ UNCHANGED <<dbPolls, now, writes, vote, upd>>
    /\ UNCHANGED <<postVars, page, otherVars>>

\* await supabase.from('polls').delete().eq('id', poll.id), its outcome not
\* looked at; then the error of the options insert is returned
CreateAwaitCleanup ==
    /\ op.pc = "cleanup"
    /\ \E outcome \in DbOutcomes :
         dbPolls' = IF outcome = "ok"
                    THEN [p \in DOMAIN dbPolls \ {op.poll} |-> dbPolls[p]]
                    ELSE dbPolls
    /\ op' = [op EXCEPT !.pc = "done"]
    /\ UNCHANGED <<dbOptions, now, writes, vote, upd>>
    /\ UNCHANGED <<postVars, page, otherVars>>

\* deletePoll resumed after one of its datastore queries: the ownership
\* check, the delete of the polls row (its options go by cascade)
DeleteAwaitQuery ==
    /\ op.pc \in {"owner", "delete"}
    /\ UNCHANGED <<now, writes, vote, upd>>
    /\ UNCHANGED <<postVars, page, otherVars>>
    /\ \E outcome \in DbOutcomes :
         IF op.pc = "owner"
         THEN /\ IF checkPollOwnership(op.pollId, op.user, op.user, outcome)
                 THEN op' = [op EXCEPT !.pc = "delete", !.queried = TRUE]
                 ELSE op' = [op EXCEPT !.pc = "done", !.queried = TRUE,
                                !.dbError = (outcome # "ok"),
                                !.result = createErrorResponse(createFormError(
                                    "You can only delete your own polls", "api"))]
              /\ UNCHANGED <<dbPolls, dbOptions>>
         ELSE IF outcome # "ok"
         THEN /\ OpReturn(handleDatabaseError(PostgrestError(outcome)), TRUE)
              /\ UNCHANGED <<dbPolls, dbOptions>>
         ELSE /\ dbPolls' = [p \in DOMAIN dbPolls \ {op.pollId} |-> dbPolls[p]]
              /\ dbOptions' = [o \in {x \in DOMAIN dbOptions :
                                         dbOptions[x].poll_id # op.pollId} |->
                                  dbOptions[o]]
              /\ OpReturn(createSuccessResponse(Undefined), FALSE)

\* ------------------------------------------- getPoll, getPolls, getPollStats
\* a call of getPoll from outside voteOnPoll, up to its select
getPollCall(pollId, session) ==
    /\ op.pc \in {"idle", "done"}
    /\ op' = [IdleOp EXCEPT !.name = "getPoll", !.pollId = pollId,
                            !.session = session, !.pc = "getPoll"]
    /\ UNCHANGED <<dbPolls, dbOptions, now, writes, vote, upd>>
    /\ UNCHANGED <<postVars, page, otherVars>>

GetPollAwait ==
    /\ op.pc = "getPoll"
    /\ \E outcome \in DbOutcomes :
         op' = [op EXCEPT !.pc = "done", !.queried = TRUE,
                          !.dbError = (outcome # "ok"),
                          !.result = getPoll(op.pollId, outcome)]
    /\ UNCHANGED <<dbPolls, dbOptions, now, writes, vote, upd>>
    /\ UNCHANGED <<postVars, page, otherVars>>

\* the ids of the polls rows a query selects, filtered by created_by when
\* userId is given
SelectPolls(userId) ==
    {p \in DOMAIN dbPolls : userId = Undefined \/ dbPolls[p].created_by = userId}

\* getPolls(1, 10, userId) up to its query; every row is on the first page
getPolls(userId, session) ==
    /\ op.pc \in {"idle", "done"}
    /\ op' = [IdleOp EXCEPT !.name = "getPolls", !.userId = userId,
                            !.session = session, !.pc = "getPolls"]
    /\ UNCHANGED <<dbPolls, dbOptions, now, writes, vote, upd>>
    /\ UNCHANGED <<postVars, page, otherVars>>

GetPollsAwait ==
    /\ op.pc = "getPolls"
    /\ \E outcome \in DbOutcomes :
         op' = [op EXCEPT
                  !.pc = "done", !.queried = TRUE, !.dbError = (outcome # "ok"),
                  !.result =
                     IF outcome # "ok"
                     THEN handleDatabaseError(PostgrestError(outcome))
                     ELSE createSuccessResponse(
                              [polls |-> {CompletePoll(p, dbPolls[p],
                                                       OptionsOf(p, dbOptions)) :
                                             p \in SelectPolls(op.userId)},
                               total |-> Cardinality(SelectPolls(op.userId)),
                               page |-> 1, limit |-> 10])]
    /\ UNCHANGED <<dbPolls, dbOptions, now, writes, vote, upd>>
    /\ UNCHANGED <<postVars, page, otherVars>>

\* getPollStats(userId) up to its select from polls
getPollStats(userId, session) ==
    /\ op.pc \in {"idle", "done"}
    /\ op' = [IdleOp EXCEPT !.name = "getPollStats", !.userId = userId,
                            !.session = session, !.pc = "statsPolls"]
    /\ UNCHANGED <<dbPolls, dbOptions, now, writes, vote, upd>>
    /\ UNCHANGED <<postVars, page, otherVars>>

\* select id, is_active, created_by from polls
StatsAwaitPolls ==
    /\ op.pc = "statsPolls"
    /\ \E outcome \in DbOutcomes :
         IF outcome # "ok"
         THEN op' = [op EXCEPT !.pc = "done", !.queried = TRUE, !.dbError = TRUE,
                        !.result = handleDatabaseError(PostgrestError(outcome))]
         ELSE op' = [op EXCEPT !.pc = "statsVotes", !.queried = TRUE,
                        !.rows = [p \in SelectPolls(op.userId) |->
                                     dbPolls[p].is_active]]
    /\ UNCHANGED <<dbPolls, dbOptions, now, writes, vote, upd>>
    /\ UNCHANGED <<postVars, page, otherVars>>

\* select votes from poll_options where poll_id in pollIds
StatsAwaitVotes ==
    /\ op.pc = "statsVotes"
    /\ \E outcome \in DbOutcomes :
         IF outcome # "ok"
         THEN OpReturn(handleDatabaseError(PostgrestError(outcome)), TRUE)
         ELSE LET votes == [o \in {x \in DOMAIN dbOptions :
                                      dbOptions[x].poll_id \in DOMAIN op.rows} |->
                               dbOptions[o]]
              IN  OpReturn(createSuccessResponse(
                      [total_polls |-> Cardinality(DOMAIN op.rows),
                       active_polls |-> Cardinality({p \in DOMAIN op.rows :
                                                       op.rows[p]}),
                       total_votes |-> SumVotes(votes, DOMAIN votes),
                       user_polls |-> IF op.userId # Undefined
                                      THEN Cardinality(DOMAIN op.rows)
                                      ELSE 0]), FALSE)
    /\ UNCHANGED <<dbPolls, dbOptions, now, writes, vote, upd>>
    /\ UNCHANGED <<postVars, page, otherVars>>

DeletePollIds == {"p1", "p3"}

NextDelete ==
    \/ \E p \in DeletePollIds, s \in Users \cup {Undefined} : deletePoll(p, s)
    \/ OpAwaitAuth
    \/ DeleteAwaitQuery

NextCreate ==
    \/ \E d \in CreateInputs, s \in Users \cup {Undefined} : createPoll(d, s)
    \/ OpAwaitAuth
    \/ CreateAwaitPoll
    \/ CreateAwaitOptions
    \/ CreateAwaitCleanup

NextRead ==
    \/ \E p \in {"p1", "missing"}, s \in Users \cup {Undefined} :
          getPollCall(p, s)
    \/ \E u \in {"u1", Undefined}, s \in Users \cup {Undefined} : getPolls(u, s)
    \/ \E u \in {"u1", Undefined}, s \in Users \cup {Undefined} :
          getPollStats(u, s)
    \/ GetPollAwait
    \/ GetPollsAwait
    \/ StatsAwaitPolls
    \/ StatsAwaitVotes

\* ------------------------------------------------------------ PollDetailPage
\* WebSocketClient.disconnect() on client n (0: no client, nothing is done)
Disconnect(sockets, n) ==
    IF n = 0 THEN sockets
    ELSE [sockets EXCEPT ![n].open = FALSE, ![n].disconnects = @ + 1]

\* the effect of useEffect(..., [params.id]) for the render with `id`:
\* fetchPoll() up to its fetch, setupWebSocket() (new client, connect(),
\* setWsClient); the cleanup it returns reads wsClient of that render
RunEffect(pg, id) ==
    LET n == Len(pg.sockets) + 1
    IN  [pg EXCEPT !.status = "mounted",
                   !.id = id,
                   !.fetches = Append(@, [pending |-> TRUE, response |-> {}]),
                   !.sockets = Append(@, [id |-> id, open |-> TRUE,
                                          disconnects |-> 0,
                                          delivered |-> pg.server[id]]),
                   !.wsClient = n,
                   !.cleanup = pg.wsClient,
                   !.last = [NoEvent EXCEPT !.event = "effect", !.client = n]]

\* the cleanup the last effect returned: if (wsClient) wsClient.disconnect()
RunCleanup(pg) == [pg EXCEPT !.sockets = Disconnect(@, pg.cleanup)]

\* first render and its effect
Mount(id) ==
    /\ page.status = "initial"
    /\ page' = RunEffect(page, id)
    /\ UNCHANGED <<postVars, storeVars, otherVars>>

\* a render with another params.id: the previous cleanup, then the effect
ChangeId(id) ==
    /\ page.status = "mounted"
    /\ id # page.id
    /\ Len(page.sockets) < MaxEffects
    /\ page' = RunEffect(RunCleanup(page), id)
    /\ UNCHANGED <<postVars, storeVars, otherVars>>

\* the page is unmounted: the last cleanup runs
Unmount ==
    /\ page.status = "mounted"
    /\ page' = [RunCleanup(page) EXCEPT
                   !.status = "unmounted",
                   !.last = [NoEvent EXCEPT !.event = "unmount"]]
    /\ UNCHANGED <<postVars, storeVars, otherVars>>

\* a state setter called after the unmount changes nothing (what is not
\* React state changes all the same)
SetState(pg, next) ==
    IF pg.status = "mounted" THEN next
    ELSE [pg EXCEPT !.fetches = next.fetches, !.hv = next.hv,
                    !.sockets = next.sockets, !.last = next.last]

\* the votes the server has taken in, over all polls
VotesCast(server) == server["1"] + server["2"]

\* a vote of another visitor reaches the server: the poll's votes go up by
\* one and the updated poll is broadcast to every connected client
OtherVote(id) ==
    /\ VotesCast(page.server) < MaxTally
    /\ page' = [page EXCEPT !.server[id] = @ + 1]
    /\ UNCHANGED <<postVars, storeVars, otherVars>>

\* the request of fetchPoll of effect n is answered with an OK response: it
\* carries the poll as the server holds it at that moment
FetchAnswered(n) ==
    /\ n \in 1 .. Len(page.fetches)
    /\ page.fetches[n].pending
    /\ page.fetches[n].response = {}
    /\ page' = [page EXCEPT
                  !.fetches[n].response =
                      {PollData(page.sockets[n].id,
                                page.server[page.sockets[n].id])}]
    /\ UNCHANGED <<postVars, storeVars, otherVars>>

\* fetchPoll of effect n resumed: its fetch has settled, with the OK
\* response on its way or, when there is none, with a failure
FetchPollSettles(n) ==
    /\ n \in 1 .. Len(page.fetches)
    /\ page.fetches[n].pending
    /\ \E outcome \in Outcomes :
         /\ outcome = "ok" <=> page.fetches[n].response # {}
         /\ page' = SetState(page,
                      [page EXCEPT
                         !.fetches[n] = [pending |-> FALSE, response |-> {}],
                         !.poll = IF outcome = "ok"
                                  THEN page.fetches[n].response ELSE @,
                         !.loading = FALSE,
                         !.last = [NoEvent EXCEPT !.event = "fetchPoll",
                                                  !.outcome = outcome,
                                                  !.client = n]])
    /\ UNCHANGED <<postVars, storeVars, otherVars>>

\* onChange of an option's radio input, rendered once a poll is loaded
SelectRadio(option) ==
    /\ page.status = "mounted"
    /\ ~page.loading
    /\ page.poll # {}
    /\ page.selectedOption # option
    /\ page' = [page EXCEPT !.selectedOption = option,
                            !.last = [NoEvent EXCEPT !.event = "select"]]
    /\ UNCHANGED <<postVars, storeVars, otherVars>>

\* the poll state after the vote's fetch settled with `outcome`
VotedPollAlways(outcome, poll, data) == {data}

VotedPoll(outcome, poll, data) ==
    IF outcome = "ok" THEN {data} ELSE poll

\* handleVote, from the click on the enabled button up to its fetch
handleVote ==
    /\ page.status = "mounted"
    /\ ~page.loading
    /\ page.poll # {}
    /\ page.selectedOption # Undefined
    /\ ~page.voting
    /\ page.hv.pc = "idle"
    /\ page' = [page EXCEPT !.voting = TRUE,
                            !.hv = [IdleVoteCall EXCEPT !.pc = "fetch",
                                                        !.id = page.id],
                            !.last = [NoEvent EXCEPT !.event = "click"]]
    /\ UNCHANGED <<postVars, storeVars, otherVars>>

\* the POST of handleVote is accepted: the vote adds one to the poll's
\* votes, is broadcast, and is answered with the updated poll
VoteAnswered ==
    /\ page.hv.pc = "fetch"
    /\ VotesCast(page.server) < MaxTally
    /\ page' = [page EXCEPT
                  !.server[page.hv.id] = @ + 1,
                  !.hv = [@ EXCEPT !.pc = "answered",
                                   !.votes = page.server[page.hv.id] + 1]]
    /\ UNCHANGED <<postVars, storeVars, otherVars>>

\* handleVote resumed: its fetch has settled, with the OK response on its
\* way or, when there is none, with a failure
HandleVoteSettles ==
    /\ page.hv.pc \in {"fetch", "answered"}
    /\ \E outcome \in Outcomes :
         /\ outcome = "ok" <=> page.hv.pc = "answered"
         /\ page' = SetState(page,
                      [page EXCEPT
                         !.hv = IdleVoteCall,
                         !.poll = VotedPoll(outcome, @,
                                      PollData(page.hv.id, page.hv.votes)),
                         !.selectedOption = IF outcome = "ok"
                                            THEN Undefined ELSE @,
                         !.voting = FALSE,
                         !.last = [NoEvent EXCEPT !.event = "handleVote",
                                                  !.outcome = outcome]])
    /\ UNCHANGED <<postVars, storeVars, otherVars>>

\* client n, connected, is handed `data`, a VOTE_UPDATE that was broadcast
\* (for the poll it was set up for: the next one it has not yet been
\* handed), and calls the callback given to it
Receive(n, data) ==
    /\ n \in 1 .. Len(page.sockets)
    /\ page.sockets[n].open
    /\ data.poll.votes \in 1 .. page.server[data.pollId]
    /\ data.pollId = page.sockets[n].id
       => data.poll.votes = page.sockets[n].delivered + 1
    /\ page' = SetState(page,
                  [page EXCEPT
                     !.sockets[n].delivered =
                         IF data.pollId = page.sockets[n].id
                         THEN data.poll.votes ELSE @,
                     !.poll = IF /\ data.type = "VOTE_UPDATE"
                                 /\ data.pollId = page.sockets[n].id
                              THEN {data.poll} ELSE @,
                     !.last = [NoEvent EXCEPT !.event = "message",
                                              !.client = n,
                                              !.message = data]])
    /\ UNCHANGED <<postVars, storeVars, otherVars>>

NextPage ==
    \/ \E id \in PageIds : Mount(id)
    \/ \E id \in PageIds : ChangeId(id)
    \/ Unmount
    \/ \E id \in PageIds : OtherVote(id)
    \/ \E n \in 1 .. MaxEffects : FetchAnswered(n)
    \/ \E n \in 1 .. MaxEffects : FetchPollSettles(n)
    \/ SelectRadio("1")
    \/ handleVote
    \/ VoteAnswered
    \/ HandleVoteSettles
    \/ \E n \in 1 .. MaxEffects, data \in Messages : Receive(n, data)

\* ------------------------------------------------------------------ withRetry
\* error.message.includes('Server error') on the messages parseApiError gives
IncludesServerError(message) ==
    message \in {"Server error occurred",
                 "Server error occurred. Please try again later."}

isRetryableErrorAlways(error) == TRUE

isRetryableError(error) ==
    \/ error.type = "network"
    \/ (error.type = "api" /\ IncludesServerError(error.message))

\* Math.pow(b, e) for a natural e
RECURSIVE Pow(_, _)
Pow(b, e) == IF e = 0 THEN 1 ELSE b * Pow(b, e - 1)

BackoffDelayFlat(config, attempt) == config.delay

\* config.delay * Math.pow(config.backoffMultiplier, attempt - 1)
BackoffDelay(config, attempt) ==
    config.delay * Pow(config.backoffMultiplier, attempt - 1)

\* withRetry(fn, config) up to the first `await fn()`; with maxAttempts below
\* 1 the loop body never runs and lastError, undefined, is thrown
withRetry(config) ==
    /\ retry.pc \in {"idle", "resolved", "rejected"}
    /\ retry' = IF 1 <= config.maxAttempts
                THEN [IdleRetry EXCEPT !.pc = "fn", !.config = config,
                                       !.attempt = 1, !.calls = 1]
                ELSE [IdleRetry EXCEPT !.pc = "rejected", !.config = config,
                                       !.attempt = 1]
    /\ UNCHANGED <<postVars, storeVars, page, form, signin>>

\* fn() has resolved
RetryFnResolves ==
    /\ retry.pc = "fn"
    /\ retry' = [retry EXCEPT !.pc = "resolved", !.value = "success"]
    /\ UNCHANGED <<postVars, storeVars, page, form, signin>>

\* fn() has rejected with `error`: the catch block
RetryFnRejects(error) ==
    /\ retry.pc = "fn"
    /\ LET caught == [retry EXCEPT !.lastError = error,
                                   !.rejections = Append(@, error)]
       IN  retry' =
             IF retry.attempt = retry.config.maxAttempts
             THEN [caught EXCEPT !.pc = "rejected", !.error = error]
             ELSE IF error = {}
             THEN [caught EXCEPT !.pc = "rejected", !.error = {TypeError}]
             ELSE IF \E e \in error : ~isRetryableError(parseApiError(e))
             THEN [caught EXCEPT !.pc = "rejected", !.error = error]
             ELSE [caught EXCEPT
                     !.pc = "wait",
                     !.waits = Append(@, BackoffDelay(retry.config,
                                                      retry.attempt))]
    /\ UNCHANGED <<postVars, storeVars, page, form, signin>>

\* the back-off timer has fired: attempt++, the loop test, the next fn()
RetryTimerFires ==
    /\ retry.pc = "wait"
    /\ retry' = IF retry.attempt + 1 <= retry.config.maxAttempts
                THEN [retry EXCEPT !.pc = "fn", !.attempt = @ + 1,
                                   !.calls = @ + 1]
                ELSE [retry EXCEPT !.pc = "rejected", !.attempt = @ + 1,
                                   !.error = retry.lastError]
    /\ UNCHANGED <<postVars, storeVars, page, form, signin>>

NextRetry ==
    \/ \E config \in RetryConfigs : withRetry(config)
    \/ RetryFnResolves
    \/ \E error \in RetryErrors : RetryFnRejects(error)
    \/ RetryTimerFires

\* ---------------------------------------------------------------- NewPollForm
\* options.filter((_, i) => i !== index), index counted from 1
RemoveAt(options, index) ==
    [i \in 1 .. Len(options) - 1 |->
        IF i < index THEN options[i] ELSE options[i + 1]]

\* a handler of the last render can run: the page is still shown
Handles(name) ==
    /\ ~form.navigated
    /\ form.batch < MaxBatch
    /\ UNCHANGED <<postVars, storeVars, page, retry, signin>>

\* React renders the component with its current state
Render ==
    /\ ~form.navigated
    /\ form.batch > 0
    /\ form' = [form EXCEPT
                  !.rendered = [formData |-> form.formData,
                                errors |-> form.errors,
                                isSubmitting |-> form.formState.isSubmitting],
                  !.batch = 0,
                  !.last = "render"]
    /\ UNCHANGED <<postVars, storeVars, page, retry, signin>>

\* clearErrors: setErrors({}), generalError: null
clearErrors(f) ==
    [f EXCEPT !.errors = {}, !.formState.generalError = {}]

handleTitleChange(value) ==
    /\ Handles("handleTitleChange")
    /\ \E f \in {[form EXCEPT
                    !.formData.title = value,
                    !.errors = IF "title" \in form.rendered.errors
                               THEN @ \ {"title"} ELSE @]} :
         form' = [f EXCEPT !.batch = form.batch + 1,
                           !.last = "handleTitleChange"]

handleOptionChange(index, value) ==
    /\ Handles("handleOptionChange")
    /\ index \in 1 .. Len(form.rendered.formData.options)
    /\ \E f \in {[form EXCEPT
                    !.formData.options =
                        [form.rendered.formData.options EXCEPT ![index] = value],
                    !.errors = IF "options" \in form.rendered.errors
                               THEN @ \ {"options"} ELSE @]} :
         form' = [f EXCEPT !.batch = form.batch + 1,
                           !.last = "handleOptionChange"]

\* the Add Option button is rendered while the rendered options are fewer
\* than 10; the handler tests the rendered length and appends to the
\* current options
addOption ==
    /\ Handles("addOption")
    /\ Len(form.rendered.formData.options) < MaxOptionFields
    /\ form' = [form EXCEPT !.formData.options = Append(@, ""),
                            !.batch = @ + 1, !.last = "addOption"]

\* the Remove buttons are rendered while the rendered options are more than
\* 2; the handler filters the rendered options
removeOption(index) ==
    /\ Handles("removeOption")
    /\ Len(form.rendered.formData.options) > MinOptionFields
    /\ index \in 1 .. Len(form.rendered.formData.options)
    /\ form' = [form EXCEPT
                  !.formData.options =
                      RemoveAt(form.rendered.formData.options, index),
                  !.batch = @ + 1, !.last = "removeOption"]

validateFormAlways(formData) == {}

\* validateForm: the fields of newErrors
validateForm(formData) ==
    {"title" : m \in validatePollTitle(formData.title)}
    \cup {"options" : m \in validatePollOptions(formData.options)}

\* handleSubmit up to its await; the submit button is enabled while the
\* rendered isSubmitting is false
handleSubmit ==
    /\ Handles("handleSubmit")
    /\ ~form.rendered.isSubmitting
    /\ form.pending + form.navTimers < MaxBatch
    /\ LET newErrors == validateForm(form.rendered.formData)
           cleared == [clearErrors(form) EXCEPT !.errors = newErrors,
                                                !.batch = form.batch + 1,
                                                !.last = "handleSubmit"]
       IN  form' = IF newErrors # {}
                   THEN cleared
                   ELSE [cleared EXCEPT !.formState.isSubmitting = TRUE,
                                        !.pending = @ + 1]

\* handleSubmit resumed after its one-second timer: setSuccess, the
\* navigation timer, finally isSubmitting: false.  Nothing in the try block
\* throws, so the catch block is never entered.
SubmitTimerFires ==
    /\ form.pending > 0
    /\ form' = [form EXCEPT
                  !.formState = [isSubmitting |-> FALSE, isSuccess |-> TRUE,
                                 generalError |-> {},
                                 successMessage |->
                                   {"Poll created successfully! Redirecting..."}],
                  !.pending = @ - 1,
                  !.navTimers = @ + 1,
                  !.last = "submitted"]
    /\ UNCHANGED <<postVars, storeVars, page, retry, signin>>

\* the navigation timer fires: router.push("/polls")
NavTimerFires ==
    /\ form.navTimers > 0
    /\ form' = [form EXCEPT !.navTimers = @ - 1, !.navigated = TRUE,
                            !.last = "push"]
    /\ UNCHANGED <<postVars, storeVars, page, retry, signin>>

NextForm ==
    \/ Render
    \/ handleTitleChange("Lunch?")
    \/ handleOptionChange(1, "x")
    \/ handleOptionChange(2, "y")
    \/ addOption
    \/ \E index \in 1 .. MaxOptionFields : removeOption(index)
    \/ handleSubmit
    \/ SubmitTimerFires
    \/ NavTimerFires

\* ----------------------------------------------------------------- SignInPage
\* the one account the auth service knows
ValidCredentials(credentials) ==
    credentials = [email |-> "ann@example.com", password |-> "secret"]

\* onChange of the email input
setEmail(value) ==
    /\ ~signin.navigated
    /\ signin.email # value
    /\ signin' = [signin EXCEPT !.email = value]
    /\ UNCHANGED <<postVars, storeVars, page, retry, form>>

\* onChange of the password input
setPassword(value) ==
    /\ ~signin.navigated
    /\ signin.password # value
    /\ signin' = [signin EXCEPT !.password = value]
    /\ UNCHANGED <<postVars, storeVars, page, retry, form>>

\* handleSignIn up to `await supabase.auth.signInWithPassword(...)`
handleSignIn ==
    /\ ~signin.navigated
    /\ signin.pc \in {"idle", "done"}
    /\ signin' = [signin EXCEPT
                    !.pc = "await", !.outcome = "",
                    !.credentials = [email |-> signin.email,
                                     password |-> signin.password]]
    /\ UNCHANGED <<postVars, storeVars, page, retry, form>>

\* what the page does once signInWithPassword has settled with `outcome`
Navigates(outcome) == outcome # "rejected"

\* signInWithPassword has settled: resolved with a session, resolved with an
\* error (wrong credentials, or the service failing), or rejected; then
\* router.push("/polls") unless the await threw
SignInSettles ==
    /\ signin.pc = "await"
    /\ \E outcome \in {"session", "error", "rejected"} :
         /\ outcome = "session" => ValidCredentials(signin.credentials)
         /\ signin' = [signin EXCEPT
                         !.pc = "done", !.outcome = outcome,
                         !.navigated = Navigates(outcome)]
    /\ UNCHANGED <<postVars, storeVars, page, retry, form>>

NextSignIn ==
    \/ \E value \in {"ann@example.com", "bob@example.com"} : setEmail(value)
    \/ \E value \in {"secret", "wrong"} : setPassword(value)
    \/ handleSignIn
    \/ SignInSettles

NextUpdate ==
    \/ \E p \in UpdatePollIds, d \in UpdateInputs : updatePoll(p, d)
    \/ UpdateAwaitAuth
    \/ UpdateAwaitQuery

NextVote ==
    \/ Tick
    \/ \E v \in Voters, in \in VoteInputs : voteOnPoll(v, in[1], in[2])
    \/ \E v \in Voters : VoteAwaitAuth(v)
    \/ \E v \in Voters : VoteAwaitPoll(v)
    \/ \E v \in Voters : VoteAwaitOption(v)
    \/ \E v \in Voters : VoteAwaitUpdate(v)
    \/ \E v \in Voters : VoteAwaitGetPoll(v)

\* the hub: connections come, go and go again, and are sent to by
\* broadcastVoteUpdate and by one vote the endpoint accepts
NextHub ==
    \/ createWebSocketServer
    \/ \E c \in Conns : Connect(c)
    \/ \E c \in Conns : StartClose(c)
    \/ \E c \in Conns : Close(c)
    \/ \E c \in Conns : CloseAgain(c)
    \/ \E p \in DOMAIN polls : broadcastVoteUpdate(p)
    \/ POSTStart(1)
    \/ POST(1, "1", "1")

\* the three operations that validate their input, one voter voting
NextActions ==
    \/ \E in \in VoteInputs : voteOnPoll(1, in[1], in[2])
    \/ VoteAwaitAuth(1)
    \/ VoteAwaitPoll(1)
    \/ VoteAwaitOption(1)
    \/ VoteAwaitUpdate(1)
    \/ VoteAwaitGetPoll(1)
    \/ NextUpdate
    \/ NextCreate

SpecPost == Init /\ [][NextPost]_vars
SpecHub == Init /\ [][NextHub]_vars
SpecVote == Init /\ [][NextVote]_vars
SpecStore == Init /\ [][NextVote \/ NextUpdate]_vars
SpecOwner == Init /\ [][NextUpdate \/ NextDelete \/ NextCreate]_vars
SpecRetry == Init /\ [][NextRetry]_vars
SpecForm == Init /\ [][NextForm]_vars
SpecSignIn == Init /\ [][NextSignIn]_vars
SpecPage == Init /\ [][NextPage]_vars
SpecOps == Init /\ [][NextRead \/ NextCreate \/ NextDelete]_vars
SpecActions == Init /\ [][NextActions]_vars

\* the callers that have called a poll operation: the voters (voteOnPoll),
\* the editor (updatePoll) and the caller of the other operations
Callers ==
    Cardinality({v \in Voters : vote[v].pc # "idle"})
    + (IF upd.pc = "idle" THEN 0 ELSE 1)
    + (IF op.pc = "idle" THEN 0 ELSE 1)

\* all seven operations, called by at most MaxCalls callers
NextResults ==
    /\ NextActions \/ NextRead \/ NextDelete
    /\ Callers' <= MaxCalls

SpecResults == Init /\ [][NextResults]_vars

\* The in-memory endpoint and the datastore share no state: the vote paths
\* are explored one at a time.
Next ==
    \/ InitStore /\ NextPost
    \/ InitPost /\ NextVote

Spec == Init /\ [][Next]_vars

\* =====================================================================
\* Properties
\* =====================================================================
\* the messages of the errors a PollOperationResult carries
ErrorMessages(result) == {e.message : e \in result.error}

\* C1: POST vote requests on one option of one poll that all answer success
\* leave that option's count at its starting value plus their number,
\* whatever the interleaving of the handlers at `await request.json()`.
C1_PostNoLostUpdate ==
    \A i \in 1 .. Len(InitPolls["1"].options) :
        LET id == InitPolls["1"].options[i].id
            named == {r \in Requests : /\ req[r].pc = "done"
                                       /\ req[r].pollId = "1"
                                       /\ req[r].body = id}
        IN  (\A r \in named : req[r].response.status = 200)
            => polls["1"].options[i].votes
                   = InitPolls["1"].options[i].votes + Cardinality(named)

\* every request has voted for option '1' and answered success
C1_Witness ==
    /\ \A r \in Requests : /\ req[r].pc = "done"
                           /\ req[r].body = "1"
                           /\ req[r].response.status = 200
    /\ polls["1"].options[1].votes = InitVotes1 + MaxPost

\* C2: voteOnPoll calls on one option that all return success leave the
\* option's count at its starting value plus their number: when no call is in
\* flight and every update the datastore ran belongs to a call that returned
\* success, each option counts its successful calls.
C2_StoreNoLostUpdate ==
    LET succeeded == {v \in Voters : /\ vote[v].pc = "done"
                                     /\ vote[v].result.success}
    IN  (/\ \A v \in Voters : vote[v].pc \in {"idle", "done"}
         /\ writes = Cardinality(succeeded))
        => \A o \in DOMAIN dbOptions :
              dbOptions[o].votes
                  = InitDbOptions[o].votes
                    + Cardinality({v \in succeeded : vote[v].option_id = o})

\* C3: a vote that fails leaves every count as it was: a POST request that
\* answered an error has not run the increment, and a voteOnPoll call that
\* returned a failure has not run its update.
C3_FailureChangesNothing ==
    /\ \A r \in Requests :
          (req[r].pc = "done" /\ req[r].response.status # 200)
          => ~req[r].applied
    /\ \A v \in Voters :
          (vote[v].pc = "done" /\ ~vote[v].result.success)
          => ~vote[v].wrote

\* C4: no step lowers the vote count of an option, in the in-memory polls
\* or in the poll_options table.
C4_CountsNeverDecrease ==
    [][/\ \A p \in DOMAIN polls : \A i \in 1 .. Len(polls[p].options) :
             polls'[p].options[i].votes >= polls[p].options[i].votes
       /\ \A o \in DOMAIN dbOptions \cap DOMAIN dbOptions' :
             dbOptions'[o].votes >= dbOptions[o].votes]_vars

\* C5: when the send to one connection throws during the fan-out of a vote,
\* every other open connection is still sent that vote's VOTE_UPDATE.
C5_FanOutIsolation ==
    [][\A r \in Requests :
          (req[r].pc = "json" /\ req'[r].pc = "done" /\ req'[r].threw # {})
          => \A d \in Conns \ req'[r].threw :
                readyState[d] = OPEN
                => inbox'[d] = Append(inbox[d],
                                      [type |-> "VOTE_UPDATE",
                                       pollId |-> req'[r].pollId,
                                       poll |-> polls'[req'[r].pollId]])]_vars

\* C6: a vote whose increment succeeded answers success with the updated
\* poll even when a send of its fan-out threw.
C6_DeliveryFailureContained ==
    \A r \in Requests :
        (req[r].pc = "done" /\ req[r].threw # {})
        => /\ req[r].response.status = 200
           /\ req[r].response.poll = polls[req[r].pollId]

C9_NoBroadcastWithoutIncrement ==
    [][/\ (\E c \in Conns : Len(inbox'[c]) > Len(inbox[c]))
          => \E r \in Requests :
                /\ req[r].pc = "json"
                /\ req'[r].pc = "done"
                /\ req'[r].pollId \in DOMAIN polls
                /\ \E i \in 1 .. Len(polls[req'[r].pollId].options) :
                      /\ polls[req'[r].pollId].options[i].id = req'[r].body
                      /\ polls'[req'[r].pollId].options[i].votes
                             = polls[req'[r].pollId].options[i].votes + 1
                /\ \A c \in Conns :
                      \/ inbox'[c] = inbox[c]
                      \/ inbox'[c] = Append(inbox[c],
                                            [type |-> "VOTE_UPDATE",
                                             pollId |-> req'[r].pollId,
                                             poll |-> polls'[req'[r].pollId]])
       /\ \A r \in Requests :
             (/\ req[r].pc = "json"
              /\ req'[r].pc = "done"
              /\ \/ req'[r].body = Malformed
                 \/ req'[r].pollId \notin DOMAIN polls
                 \/ \A i \in 1 .. Len(polls[req'[r].pollId].options) :
                       polls[req'[r].pollId].options[i].id # req'[r].body)
             => /\ inbox' = inbox
                /\ polls' = polls
                /\ req'[r].response.status # 200]_vars

\* with a connection open from the start, a request for an unknown option
\* has failed and a request for option '1' has succeeded: the connection
\* holds the one message of the successful request
C9_Witness ==
    /\ \E r, q \in Requests :
          /\ req[r].pc = "done" /\ req[r].response = NotFoundOption
          /\ req[q].pc = "done" /\ req[q].response.status = 200
    /\ \E c \in Conns :
          /\ readyState[c] = OPEN
          /\ joined[c] = 0
          /\ Len(inbox[c]) = 1

\* C10: when the K requests that have returned all voted for option '1' of
\* poll '1' and answered success, every connection that has been open since
\* before the first vote has received exactly K VOTE_UPDATE messages for the
\* poll, the k-th carrying the count InitVotes1 + k for the option: strictly
\* increasing, ending at the starting count plus K.
C10_EndToEnd ==
    LET K == Cardinality({r \in Requests : req[r].pc = "done"})
    IN  (\A r \in Requests :
            req[r].pc = "done"
            => /\ req[r].pollId = "1"
               /\ req[r].body = "1"
               /\ req[r].response.status = 200)
        => \A c \in Conns :
              (readyState[c] = OPEN /\ joined[c] = 0)
              => /\ Len(inbox[c]) = K
                 /\ \A k \in 1 .. K :
                       /\ inbox[c][k].type = "VOTE_UPDATE"
                       /\ inbox[c][k].pollId = "1"
                       /\ inbox[c][k].poll.options[1].votes = InitVotes1 + k

\* every request has succeeded on option '1' and every connection, open
\* throughout, holds one message per request
C10_Witness ==
    /\ \A r \in Requests : /\ req[r].pc = "done"
                           /\ req[r].body = "1"
                           /\ req[r].response.status = 200
    /\ \A c \in Conns : /\ readyState[c] = OPEN
                        /\ joined[c] = 0
                        /\ Len(inbox[c]) = MaxPost
                        /\ inbox[c][MaxPost].poll.options[1].votes
                               = InitVotes1 + MaxPost

\* C11: only a connection whose readyState is OPEN is sent a message: in
\* every step of the endpoint and of broadcastVoteUpdate, a connection whose
\* inbox grows was open and registered when the step began.
C11_OnlyOpenReceive ==
    [][\A c \in Conns :
          Len(inbox'[c]) > Len(inbox[c])
          => /\ readyState[c] = 1
             /\ \E i \in 1 .. Len(clients) : clients[i] = c]_vars

\* a closing connection, registered before an open one, holds nothing while
\* the open one, connected as early, has been sent a message
C11_Witness ==
    \E c, d \in Conns :
        /\ c < d
        /\ readyState[c] = CLOSING /\ readyState[d] = OPEN
        /\ joined[c] = 0 /\ joined[d] = 0
        /\ inbox[c] = <<>>
        /\ Len(inbox[d]) >= 1

\* C12: removing a connection again changes nothing: a step removes from
\* the registry only the connection that is closing, keeps the others in
\* their order, and a connection once removed stays out of the registry and
\* is sent nothing, however often it is removed.
C12_UnregisterIdempotent ==
    [][/\ \A d \in Conns :
             ((\E i \in 1 .. Len(clients) : clients[i] = d)
              /\ ~(\E i \in 1 .. Len(clients') : clients'[i] = d))
             => /\ readyState[d] = CLOSING
                /\ readyState'[d] = CLOSED
                /\ clients' = SelectSeq(clients, LAMBDA x : x # d)
       /\ \A c \in Conns :
             readyState[c] = CLOSED
             => /\ ~(\E i \in 1 .. Len(clients') : clients'[i] = c)
                /\ inbox'[c] = <<>>
                /\ closes'[c] # closes[c] => clients' = clients]_vars

\* a connection has been removed twice while another, still registered and
\* open, has been sent a message
C12_Witness ==
    \E c, d \in Conns :
        /\ closes[c] = 2
        /\ readyState[d] = OPEN
        /\ \E i \in 1 .. Len(clients) : clients[i] = d
        /\ Len(inbox[d]) >= 1

\* C16: a fan-out changes no poll: a step of broadcastVoteUpdate leaves
\* `polls` as it is, and every message a connection is sent, by it or by the
\* endpoint, is {type: 'VOTE_UPDATE', pollId, poll} with the counts the
\* store holds for that poll when the send returns.
C16_BroadcastKeepsPolls ==
    [][/\ (\A r \in Requests : req'[r] = req[r]) => polls' = polls
       /\ \A c \in Conns :
             Len(inbox'[c]) > Len(inbox[c])
             => /\ Len(inbox'[c]) = Len(inbox[c]) + 1
                /\ SubSeq(inbox'[c], 1, Len(inbox[c])) = inbox[c]
                /\ LET m == inbox'[c][Len(inbox'[c])]
                   IN  /\ m.type = "VOTE_UPDATE"
                       /\ m.pollId \in DOMAIN polls'
                       /\ m.poll = polls'[m.pollId]]_vars

\* after a vote has raised a count, broadcastVoteUpdate has sent an open
\* connection a second message with the same counts, and the store still
\* holds them
C16_Witness ==
    \E c \in Conns :
        /\ readyState[c] = OPEN
        /\ Len(inbox[c]) = 2
        /\ inbox[c][1] = inbox[c][2]
        /\ inbox[c][2].poll = polls["1"]
        /\ polls["1"].options[1].votes = InitVotes1 + 1

\* C14: a vote on a poll that exists but has been deactivated fails with an
\* error that differs from the error of a vote on a poll id that does not
\* exist (both calls validated, authenticated, and answered by the
\* datastore without a datastore error).
C14_InactiveDistinguishable ==
    \A v, w \in Voters :
        (/\ vote[v].pc = "done" /\ vote[w].pc = "done"
         /\ ~vote[v].dbError /\ ~vote[w].dbError
         /\ ErrorMessages(vote[v].result) \cap
                {"Validation failed", "Authentication required"} = {}
         /\ ErrorMessages(vote[w].result) \cap
                {"Validation failed", "Authentication required"} = {}
         /\ vote[v].poll_id \in DOMAIN dbPolls
         /\ ~dbPolls[vote[v].poll_id].is_active
         /\ vote[w].poll_id \notin DOMAIN dbPolls)
        => /\ ~vote[v].result.success
           /\ vote[v].result.error # vote[w].result.error

\* C17: a step of updatePoll or deletePoll changes a table only when the
\* user the call authenticated is the created_by of the poll it names, and
\* a call that ends for any other user (or for none) ends with a failure,
\* in a step that changes no table.
C17_OwnerOnlyWrites ==
    [][/\ (upd' # upd /\ <<dbPolls, dbOptions>>' # <<dbPolls, dbOptions>>)
          => /\ upd.pollId \in DOMAIN dbPolls
             /\ dbPolls[upd.pollId].created_by = upd.user
       /\ (/\ upd' # upd /\ upd'.pc = "done"
           /\ \/ upd.pollId \notin DOMAIN dbPolls
              \/ dbPolls[upd.pollId].created_by # upd'.user)
          => /\ ~upd'.result.success
             /\ <<dbPolls, dbOptions>>' = <<dbPolls, dbOptions>>
       /\ (/\ op' # op /\ op.name = "deletePoll"
           /\ <<dbPolls, dbOptions>>' # <<dbPolls, dbOptions>>)
          => /\ op.pollId \in DOMAIN dbPolls
             /\ dbPolls[op.pollId].created_by = op.user
       /\ (/\ op' # op /\ op'.name = "deletePoll" /\ op'.pc = "done"
           /\ \/ op'.pollId \notin DOMAIN dbPolls
              \/ dbPolls[op'.pollId].created_by # op'.user)
          => /\ ~op'.result.success
             /\ <<dbPolls, dbOptions>>' = <<dbPolls, dbOptions>>]_vars

\* an updatePoll and a deletePoll call by a signed-in user who did not
\* create the poll have been refused, the tables as they were
C17_Witness ==
    /\ upd.pc = "done" /\ upd.pollId = "p1" /\ upd.user = "u2"
    /\ ErrorMessages(upd.result) = {"You can only update your own polls"}
    /\ op.pc = "done" /\ op.name = "deletePoll" /\ op.pollId = "p1"
    /\ op.user = "u2"
    /\ ErrorMessages(op.result) = {"You can only delete your own polls"}
    /\ dbPolls = InitDbPolls /\ dbOptions = InitDbOptions

\* C18: an updatePoll or deletePoll call by the user who created the poll,
\* valid and authenticated, the datastore answering without an error, passes
\* the ownership check and returns success.
C18_OwnerCanWrite ==
    /\ (/\ upd.pc = "done" /\ ~upd.dbError
        /\ upd.pollId \in DOMAIN dbPolls
        /\ dbPolls[upd.pollId].created_by = upd.user)
       => upd.result.success
    /\ (/\ op.pc = "done" /\ op.name = "deletePoll" /\ ~op.dbError
        /\ op.pollId \in DOMAIN dbPolls
        /\ dbPolls[op.pollId].created_by = op.user)
       => op.result.success

\* C19: a call of createPoll, deletePoll, getPoll, getPolls or getPollStats
\* made while nobody is signed in ends with a failure and has queried no
\* table.
C19_AllRequireAuth ==
    (op.pc = "done" /\ op.session = Undefined)
    => /\ ~op.result.success
       /\ ~op.queried

\* C20: a voteOnPoll, updatePoll or createPoll call whose input is invalid
\* (a blank poll or option id; a title given that is not 3 to 200
\* characters, options that are not 2 to 10 distinct non-blank texts, an
\* expiry that is not in the future) returns in its first step, before
\* getAuthenticatedClient and before any query: with success false and
\* validationErrors, the tables as they were.
C20_InvalidInputStopsEarly ==
    [][/\ \A v \in Voters :
            (/\ vote[v].pc \in {"idle", "done"} /\ vote'[v] # vote[v]
             /\ \/ Trim(vote'[v].poll_id) = ""
                \/ Trim(vote'[v].option_id) = "")
            => /\ vote'[v].pc = "done"
               /\ ~vote'[v].result.success
               /\ vote'[v].result.validationErrors # {}
               /\ <<dbPolls, dbOptions>>' = <<dbPolls, dbOptions>>
       /\ (/\ upd.pc \in {"idle", "done"} /\ upd' # upd
           /\ \/ /\ upd'.data.title # Undefined
                 /\ validatePollTitle(upd'.data.title) # {}
              \/ \E o \in upd'.data.options : validatePollOptions(o) # {}
              \/ \E e \in upd'.data.expires_at : e <= now)
          => /\ upd'.pc = "done"
             /\ ~upd'.result.success
             /\ upd'.result.validationErrors # {}
             /\ <<dbPolls, dbOptions>>' = <<dbPolls, dbOptions>>
       /\ (/\ op.pc \in {"idle", "done"} /\ op' # op
           /\ op'.name = "createPoll"
           /\ \/ validatePollTitle(op'.data.title) # {}
              \/ validatePollOptions(op'.data.options) # {}
              \/ \E e \in op'.data.expires_at : e <= now)
          => /\ op'.pc = "done"
             /\ ~op'.result.success
             /\ op'.result.validationErrors # {}
             /\ ~op'.queried
             /\ <<dbPolls, dbOptions>>' = <<dbPolls, dbOptions>>]_vars

\* each of the three operations has returned its validation failure
C20_Witness ==
    /\ \E v \in Voters :
          /\ vote[v].pc = "done" /\ Trim(vote[v].poll_id) = ""
          /\ vote[v].result.validationErrors # {}
    /\ upd.pc = "done" /\ upd.data.title = "ab"
    /\ upd.result.validationErrors # {}
    /\ op.pc = "done" /\ op.name = "createPoll" /\ op.data.title = "ab"
    /\ op.result.validationErrors # {}
    /\ ~op.queried

\* C13: every WebSocket client the poll detail page made is disconnected
\* exactly once when the poll id changes or the page unmounts: at most one
\* client is live, every client but the current one has been disconnected
\* once, and after the unmount every client has been and none is live.
C13_NoClientLeak ==
    LET made == 1 .. Len(page.sockets)
    IN  /\ Cardinality({n \in made : page.sockets[n].open}) <= 1
        /\ \A n \in made :
              /\ page.sockets[n].disconnects <= 1
              /\ (n < Len(page.sockets) \/ page.status = "unmounted")
                 => /\ page.sockets[n].disconnects = 1
                    /\ ~page.sockets[n].open

\* C15: the step in which handleVote's fetch settles with a non-OK response
\* or a thrown error leaves the page's poll state as it is; the poll state
\* changes only in a step where a fetch (of fetchPoll or of handleVote)
\* settles with an OK response, or where a client is sent a VOTE_UPDATE
\* whose pollId is the poll id that client was set up for.
C15_FailedVoteKeepsPoll ==
    [][/\ (/\ page.hv.pc # "idle" /\ page'.hv.pc = "idle"
           /\ page'.last.outcome # "ok")
          => page'.poll = page.poll
       /\ (page'.poll # page.poll)
          => \/ /\ page'.last.event \in {"fetchPoll", "handleVote"}
                /\ page'.last.outcome = "ok"
             \/ /\ page'.last.event = "message"
                /\ page'.last.message.type = "VOTE_UPDATE"
                /\ page'.last.message.pollId
                      = page.sockets[page'.last.client].id]_vars

\* a vote submission has failed on a page that shows a poll with a tally
C15_Witness ==
    /\ page.status = "mounted"
    /\ page.last.event = "handleVote"
    /\ page.last.outcome \in {"non-ok", "throw"}
    /\ page.poll = {PollData(page.id, 1)}
    /\ page.selectedOption = "1"
    /\ ~page.voting

\* C21: whenever no createPoll and no updatePoll call is in flight, every
\* row of polls has at least 2 rows of poll_options, also after a call that
\* returned a failure.
C21_AtLeastTwoOptions ==
    (op.pc \in {"idle", "done"} /\ upd.pc \in {"idle", "done"})
    => \A p \in DOMAIN dbPolls :
          Cardinality({o \in DOMAIN dbOptions : dbOptions[o].poll_id = p}) >= 2

\* C22: fn is invoked at most config.maxAttempts times, and a withRetry call
\* whose every invocation of fn rejected rejects with what the last
\* invocation rejected with.
C22_RespectsMaxAttempts ==
    /\ (retry.config.maxAttempts >= 0)
       => retry.calls <= retry.config.maxAttempts
    /\ (retry.pc = "rejected" /\ retry.calls >= 1)
       => retry.error = retry.rejections[retry.calls]

\* C23: the step in which fn rejects with an error object that parseApiError
\* classifies as neither a network error nor an api error whose message
\* includes 'Server error' rejects withRetry with that same error, with no
\* delay added and no further invocation; when it is the first invocation,
\* fn has been invoked exactly once.
C23_NoRetryOfNonRetryable ==
    [][(/\ retry.pc = "fn"
        /\ Len(retry'.rejections) = Len(retry.rejections) + 1
        /\ \E e \in retry'.lastError :
              LET formError == parseApiError(e)
              IN  ~(\/ formError.type = "network"
                    \/ /\ formError.type = "api"
                       /\ formError.message \in
                            {"Server error occurred",
                             "Server error occurred. Please try again later."}))
       => /\ retry'.pc = "rejected"
          /\ retry'.error = retry'.lastError
          /\ retry'.waits = retry.waits
          /\ retry'.calls = retry.calls
          /\ (retry.attempt = 1 => retry'.calls = 1)]_vars

\* a first invocation rejected with HTTP 400 under a config that allowed
\* three: withRetry has rejected after that one invocation
C23_Witness ==
    /\ retry.pc = "rejected"
    /\ retry.config.maxAttempts = 3
    /\ retry.rejections = <<{HttpError(400)}>>
    /\ retry.calls = 1
    /\ retry.waits = <<>>

\* C24: a withRetry call that resolved did so with fn's value after exactly
\* k + 1 invocations, k < maxAttempts being the number of rejections before,
\* each of them retryable, and between invocation i and i + 1 it waited
\* delay * backoffMultiplier^(i-1); nothing is invoked after it resolved.
C24_RetriesUntilSuccess ==
    /\ (retry.pc = "resolved")
       => /\ retry.value = "success"
          /\ retry.calls = Len(retry.rejections) + 1
          /\ Len(retry.rejections) < retry.config.maxAttempts
          /\ Len(retry.waits) = Len(retry.rejections)
          /\ \A i \in 1 .. Len(retry.rejections) :
                \E e \in retry.rejections[i] :
                   \/ parseApiError(e).type = "network"
                   \/ /\ parseApiError(e).type = "api"
                      /\ parseApiError(e).message \in
                            {"Server error occurred",
                             "Server error occurred. Please try again later."}
          /\ \A i \in 1 .. Len(retry.waits) :
                retry.waits[i] = retry.config.delay
                                   * Pow(retry.config.backoffMultiplier, i - 1)
    /\ (retry.pc = "wait")
       => /\ Len(retry.waits) = retry.attempt
          /\ retry.waits[retry.attempt]
                = retry.config.delay
                    * Pow(retry.config.backoffMultiplier, retry.attempt - 1)

\* two retryable rejections, then success on the third invocation, the
\* delay doubling
C24_Witness ==
    /\ retry.pc = "resolved"
    /\ retry.calls = 3
    /\ retry.rejections = <<{HttpError(500)}, {NetworkError}>>
    /\ retry.waits = <<10, 20>>

\* C25: NewPollForm has at least 2 and at most 10 options after any sequence
\* of addOption and removeOption, also when several of them are handled
\* before the component renders again.
C25_OptionFieldsInRange ==
    /\ Len(form.formData.options) >= 2
    /\ Len(form.formData.options) <= 10

C30_NavigateOnlyWhenSignedIn ==
    signin.navigated => signin.outcome = "session"

\* C27: the votes the page shows for a poll never go down: a step that
\* replaces the poll state by another snapshot of the same poll replaces it
\* by one with at least as many votes.
C27_DisplayedVotesNeverDecrease ==
    [][\A old \in page.poll, new \in page'.poll :
          old.id = new.id => new.votes >= old.votes]_vars

\* C28: the poll state is only ever replaced by a snapshot of the poll
\* whose id is the page's current params.id.
C28_OnlyCurrentPollDisplayed ==
    [][page'.poll # page.poll
       => \A new \in page'.poll : new.id = page'.id]_vars

\* C29: every poll operation that has returned (createPoll, getPoll,
\* getPolls, updatePoll, deletePoll, voteOnPoll, getPollStats) returned a
\* PollOperationResult, and in it the error field is set exactly when
\* success is false.
C29_ErrorIffNotSuccess ==
    LET WellFormed(result) ==
            /\ result.success \in BOOLEAN
            /\ Cardinality(result.error) <= 1
            /\ \A e \in result.error : e.message # ""
            /\ result.success <=> result.error = {}
    IN  /\ \A v \in Voters : vote[v].pc = "done" => WellFormed(vote[v].result)
        /\ upd.pc = "done" => WellFormed(upd.result)
        /\ op.pc = "done" => WellFormed(op.result)

\* deletePoll has returned a failure that is not a validation failure,
\* after a createPoll that succeeded
C29_Witness ==
    /\ op.pc = "done" /\ op.name = "deletePoll"
    /\ ~op.result.success
    /\ op.result.error # {} /\ op.result.validationErrors = {}
    /\ "p3" \in DOMAIN dbPolls


====
